---- MODULE Spec2Model ----
(***************************************************************************)
(* Carotid IMT segmentation service (src/api/main.py).                     *)
(*                                                                         *)
(* Four specifications are given:                                          *)
(*   SpecShape  - UNet.forward, layer by layer, on tensor shapes           *)
(*                (channels, height, width);                               *)
(*   SpecOmit   - the same pass with the size reconciliation of            *)
(*                DecoderBlock.forward left out;                           *)
(*   SpecPixel  - the per-pixel post-processing: sigmoid, threshold,       *)
(*                mask rendering and overlay compositing;                  *)
(*   Spec       - the module-level start-up (parameter load) and the       *)
(*                three prediction endpoints serving requests.             *)
(***************************************************************************)
EXTENDS Integers, Sequences, FiniteSets, TLC

VARIABLES
    \* ---- UNet.forward on shapes
    net,        \* the UNet built by UNet.__init__ for the chosen base_channels
    input,      \* the input tensor's shape
    pc,         \* position in UNet.forward
    lvl,        \* which EncoderBlock / DecoderBlock is next (1..4)
    x,          \* the tensor flowing through forward (local x, x5)
    skip,       \* the encoder outputs x1..x4 kept for the decoder
    padding,    \* what the last reconciliation step computed and applied
    \* ---- per-pixel post-processing
    path,       \* which step of the post-processing the pixel is at
    logit,      \* the network's output at the pixel
    src,        \* the resized source image's pixel (RGB)
    mask,       \* predicted_mask at the pixel
    alpha,      \* the overlay's alpha at the pixel
    rendered,   \* the rendered pixel (RGBA), or the grey level of the mask
    \* ---- start-up and request serving
    paramFile,  \* what is at model_path
    boot,       \* module import: "importing", "serving" or "aborted"
    model,      \* the module-level model object
    req         \* the requests, by id

shapeVars == <<net, input, pc, lvl, x, skip, padding>>
pixelVars == <<path, logit, src, mask, alpha, rendered>>
serveVars == <<paramFile, boot, model, req>>
vars == <<net, input, pc, lvl, x, skip, padding,
          path, logit, src, mask, alpha, rendered,
          paramFile, boot, model, req>>

----------------------------------------------------------------------------
(* Bounds of the model *)

\* largest input height / width explored
MaxSide == 34
\* base_channels values 1..MaxBase are explored beside the deployed one
MaxBase == 2
\* logits are explored in quarters, from -MaxLogit/4 to MaxLogit/4
MaxLogit == 6
\* probabilities are kept on a grid of 2 * ProbHalf steps
ProbHalf == 2
\* number of requests
MaxReq == 3

(* Program constants *)

BASE_CHANNELS == 8
IN_CHANNELS == 3
OUT_CHANNELS == 1
IMG_SIZE == 128
OVERLAY_ALPHA == 120
MAX_U8 == 255

----------------------------------------------------------------------------
(* Tensors, as shapes.  A failed operation yields a Failure, which every    *)
(* later operation passes on (the exception propagates out of forward).     *)

Tensor(c, h, w) == [ok |-> TRUE, kind |-> "none", c |-> c, h |-> h, w |-> w]

Failure(kind) == [ok |-> FALSE, kind |-> kind, c |-> 0, h |-> 0, w |-> 0]

Bind(t, Op(_)) == IF t.ok THEN Op(t) ELSE t

SameSize(a, b) == a.h = b.h /\ a.w = b.w

(* torch.nn.Conv2d(in, out, kernel_size=k, padding=p), stride 1 *)
Conv2d(layer, t) ==
    IF t.c # layer.in THEN Failure("channels")
    ELSE Tensor(layer.out, t.h + 2 * layer.pad - layer.k + 1,
                           t.w + 2 * layer.pad - layer.k + 1)

(* torch.nn.BatchNorm2d(n): shape preserving, n channels expected *)
BatchNorm2d(n, t) == IF t.c # n THEN Failure("channels") ELSE t

(* torch.nn.ReLU: elementwise *)
ReLU(t) == t

(* DoubleConv.__init__ *)
DoubleConv(in_channels, out_channels) ==
    [conv1 |-> [in |-> in_channels, out |-> out_channels, k |-> 3, pad |-> 1],
     bn1   |-> out_channels,
     conv2 |-> [in |-> out_channels, out |-> out_channels, k |-> 3, pad |-> 1],
     bn2   |-> out_channels]

(* DoubleConv.forward *)
DoubleConvForward(m, t) ==
    LET a == Bind(t, LAMBDA u : Conv2d(m.conv1, u))
        b == Bind(a, LAMBDA u : BatchNorm2d(m.bn1, u))
        c == Bind(b, LAMBDA u : ReLU(u))
        d == Bind(c, LAMBDA u : Conv2d(m.conv2, u))
        e == Bind(d, LAMBDA u : BatchNorm2d(m.bn2, u))
    IN  Bind(e, LAMBDA u : ReLU(u))

(* A pooling with ceil_mode=True. *)
MaxPool2dCeil(t) == Tensor(t.c, (t.h + 1) \div 2, (t.w + 1) \div 2)

(* torch.nn.MaxPool2d(kernel_size=2): stride 2, floor; an empty output is   *)
(* an error ("Output size is too small").                                   *)
MaxPool2d(t) ==
    IF t.h \div 2 < 1 \/ t.w \div 2 < 1 THEN Failure("pool")
    ELSE Tensor(t.c, t.h \div 2, t.w \div 2)

(* EncoderBlock.__init__ *)
EncoderBlock(in_channels, out_channels) ==
    [double_conv |-> DoubleConv(in_channels, out_channels)]

(* EncoderBlock.forward *)
EncoderForward(m, t) ==
    LET p == Bind(t, LAMBDA u : MaxPool2d(u))
    IN  DoubleConvForward(m.double_conv, p)

(* torch.nn.ConvTranspose2d(in, out, kernel_size=2, stride=2) *)
ConvTranspose2d(layer, t) ==
    IF t.c # layer.in THEN Failure("channels")
    ELSE Tensor(layer.out, (t.h - 1) * layer.stride + layer.k,
                           (t.w - 1) * layer.stride + layer.k)

(* DecoderBlock.__init__ *)
DecoderBlock(in_channels, out_channels) ==
    [up          |-> [in |-> in_channels, out |-> out_channels, k |-> 2, stride |-> 2],
     double_conv |-> DoubleConv(in_channels, out_channels)]

NoPadding == [diff_y |-> 0, diff_x |-> 0, left |-> 0, right |-> 0, top |-> 0, bottom |-> 0]

(* A reconciliation that puts the larger half on the leading side. *)
PadAmountsLeading(t, s) ==
    IF ~SameSize(t, s)
    THEN LET dy == s.h - t.h
             dx == s.w - t.w
         IN  [diff_y |-> dy, diff_x |-> dx,
              left |-> dx - dx \div 2, right |-> dx \div 2,
              top  |-> dy - dy \div 2, bottom |-> dy \div 2]
    ELSE NoPadding

(* A reconciliation that pads floor(diff/2) on both sides. *)
PadAmountsHalved(t, s) ==
    IF ~SameSize(t, s)
    THEN LET dy == s.h - t.h
             dx == s.w - t.w
         IN  [diff_y |-> dy, diff_x |-> dx,
              left |-> dx \div 2, right |-> dx \div 2,
              top  |-> dy \div 2, bottom |-> dy \div 2]
    ELSE NoPadding

(* DecoderBlock.forward, lines 45-48: the amounts handed to F.pad, in its   *)
(* order [left, right, top, bottom]; nothing when the sizes agree.          *)
PadAmounts(t, s) ==
    IF ~SameSize(t, s)
    THEN LET diff_y == s.h - t.h
             diff_x == s.w - t.w
         IN  [diff_y |-> diff_y, diff_x |-> diff_x,
              left |-> diff_x \div 2, right |-> diff_x - diff_x \div 2,
              top  |-> diff_y \div 2, bottom |-> diff_y - diff_y \div 2]
    ELSE NoPadding

(* torch.nn.functional.pad on the last two dimensions *)
Pad(t, p) ==
    IF t.h + p.top + p.bottom < 1 \/ t.w + p.left + p.right < 1
    THEN Failure("pad")
    ELSE Tensor(t.c, t.h + p.top + p.bottom, t.w + p.left + p.right)

(* torch.cat([s, t], dim=1) *)
Cat(s, t) ==
    IF ~SameSize(s, t) THEN Failure("cat")
    ELSE Tensor(s.c + t.c, s.h, s.w)

(* A decoder whose transposed convolution keeps the channel count. *)
UNetWideDecoder(b) ==
    [inc   |-> DoubleConv(IN_CHANNELS, b),
     down  |-> <<EncoderBlock(b, b * 2), EncoderBlock(b * 2, b * 4),
                 EncoderBlock(b * 4, b * 8), EncoderBlock(b * 8, b * 16)>>,
     up    |-> <<DecoderBlock(b * 16, b * 16), DecoderBlock(b * 8, b * 4),
                 DecoderBlock(b * 4, b * 2), DecoderBlock(b * 2, b)>>,
     outc  |-> [in |-> b, out |-> OUT_CHANNELS, k |-> 1, pad |-> 0]]

(* UNet.__init__(in_channels=3, out_channels=1, base_channels=b) *)
UNet(b) ==
    [inc   |-> DoubleConv(IN_CHANNELS, b),
     down  |-> <<EncoderBlock(b, b * 2), EncoderBlock(b * 2, b * 4),
                 EncoderBlock(b * 4, b * 8), EncoderBlock(b * 8, b * 16)>>,
     up    |-> <<DecoderBlock(b * 16, b * 8), DecoderBlock(b * 8, b * 4),
                 DecoderBlock(b * 4, b * 2), DecoderBlock(b * 2, b)>>,
     outc  |-> [in |-> b, out |-> OUT_CHANNELS, k |-> 1, pad |-> 0]]

(* UNet.forward pairs decoder block j with encoder output x(5-j):           *)
(* up1 with x4, up2 with x3, up3 with x2, up4 with x1.                      *)
SkipOf(j) == 5 - j

Unset == Failure("unset")

Bases == (1 .. MaxBase) \cup {BASE_CHANNELS}

----------------------------------------------------------------------------
(* UNet.forward, one layer group per step *)

InitShapeVars ==
    /\ \E b \in Bases : net = UNet(b)
    /\ \E h \in 1 .. MaxSide, w \in 1 .. MaxSide :
          /\ input = Tensor(IN_CHANNELS, h, w)
          /\ x = Tensor(IN_CHANNELS, h, w)
    /\ pc = "inc"
    /\ lvl = 0
    /\ skip = [i \in 1 .. 4 |-> Unset]
    /\ padding = NoPadding

IdleShapeVars ==
    /\ net = UNet(BASE_CHANNELS)
    /\ input = Tensor(IN_CHANNELS, IMG_SIZE, IMG_SIZE)
    /\ x = Tensor(IN_CHANNELS, IMG_SIZE, IMG_SIZE)
    /\ pc = "idle"
    /\ lvl = 0
    /\ skip = [i \in 1 .. 4 |-> Unset]
    /\ padding = NoPadding

(* x1 = self.inc(x) *)
Inc ==
    /\ pc = "inc"
    /\ LET r == DoubleConvForward(net.inc, x)
       IN  /\ x' = r
           /\ skip' = [skip EXCEPT ![1] = r]
           /\ pc' = IF r.ok THEN "down" ELSE "failed"
    /\ lvl' = 1
    /\ UNCHANGED <<net, input, padding>>

(* x2 = self.down1(x1) ... x5 = self.down4(x4) *)
Down ==
    /\ pc = "down"
    /\ LET r == EncoderForward(net.down[lvl], x)
       IN  /\ x' = r
           /\ skip' = IF lvl < 4 /\ r.ok THEN [skip EXCEPT ![lvl + 1] = r] ELSE skip
           /\ pc' = IF ~r.ok THEN "failed" ELSE IF lvl < 4 THEN "down" ELSE "up"
           /\ lvl' = IF ~r.ok THEN lvl ELSE IF lvl < 4 THEN lvl + 1 ELSE 1
    /\ UNCHANGED <<net, input, padding>>

(* DecoderBlock.forward: x = self.up(x) *)
Up ==
    /\ pc = "up"
    /\ LET r == ConvTranspose2d(net.up[lvl].up, x)
       IN  /\ x' = r
           /\ pc' = IF r.ok THEN "pad" ELSE "failed"
    /\ padding' = NoPadding
    /\ UNCHANGED <<net, input, lvl, skip>>

(* DecoderBlock.forward: the size reconciliation *)
Reconcile ==
    /\ pc = "pad"
    /\ LET p == PadAmounts(x, skip[SkipOf(lvl)])
           r == Pad(x, p)
       IN  /\ padding' = p
           /\ x' = r
           /\ pc' = IF r.ok THEN "cat" ELSE "failed"
    /\ UNCHANGED <<net, input, lvl, skip>>

(* DecoderBlock.forward with the reconciliation left out *)
ReconcileOmitted ==
    /\ pc = "pad"
    /\ pc' = "cat"
    /\ UNCHANGED <<net, input, lvl, x, skip, padding>>

(* DecoderBlock.forward: x = torch.cat([skip, x], dim=1);                   *)
(* return self.double_conv(x)                                               *)
CatConv ==
    /\ pc = "cat"
    /\ LET c == Cat(skip[SkipOf(lvl)], x)
           r == DoubleConvForward(net.up[lvl].double_conv, c)
       IN  /\ x' = r
           /\ pc' = IF ~r.ok THEN "failed" ELSE IF lvl < 4 THEN "up" ELSE "outc"
           /\ lvl' = IF r.ok /\ lvl < 4 THEN lvl + 1 ELSE lvl
    /\ UNCHANGED <<net, input, skip, padding>>

(* return self.outc(x) *)
Outc ==
    /\ pc = "outc"
    /\ LET r == Conv2d(net.outc, x)
       IN  /\ x' = r
           /\ pc' = IF r.ok THEN "done" ELSE "failed"
    /\ UNCHANGED <<net, input, lvl, skip, padding>>

----------------------------------------------------------------------------
(* Per-pixel post-processing.  Logits are counted in quarters and          *)
(* probabilities live on a grid of ProbOne steps, as floating point keeps   *)
(* them on a finite grid: a small positive logit can round to exactly 0.5.  *)

RECURSIVE Pow(_, _)
Pow(b, n) == IF n = 0 THEN 1 ELSE b * Pow(b, n - 1)

ProbOne == 2 * ProbHalf

Logits == (-MaxLogit) .. MaxLogit

(* torch.sigmoid: 1 / (1 + e^-v) at v = q/4, with e^(1/4) taken as 9/7,     *)
(* rounded to the nearest grid point.                                       *)
Sigmoid(q) ==
    LET num == IF q >= 0 THEN Pow(9, q) ELSE Pow(7, -q)
        den == IF q >= 0 THEN Pow(9, q) + Pow(7, q) ELSE Pow(7, -q) + Pow(9, -q)
    IN  (2 * ProbOne * num + den) \div (2 * den)

(* A threshold that counts 0.5 itself as foreground. *)
BinarizeInclusive(p) == IF p >= ProbHalf THEN 1 ELSE 0

(* predict_segmentation: (probabilities > 0.5).float() *)
Binarize(p) == IF p > ProbHalf THEN 1 ELSE 0

(* predict_mask_from_image: (probabilities > 0.5).float() *)
BinarizeFromImage(p) == IF p > ProbHalf THEN 1 ELSE 0

(* (predicted_mask * 255).astype(np.uint8) *)
MaskToU8(m) == (m * MAX_U8) % (MAX_U8 + 1)

(* An alpha applied to every pixel of the mask image. *)
OverlayAlphaEverywhere(p) == IF p >= 0 THEN OVERLAY_ALPHA ELSE 0

(* mask_image.point(lambda p: 120 if p > 0 else 0) *)
OverlayAlpha(p) == IF p > 0 THEN OVERLAY_ALPHA ELSE 0

(* Image.new("RGBA", size, (255, 0, 0, 0)) followed by putalpha(alpha) *)
OverlayPixel(a) == [r |-> 255, g |-> 0, b |-> 0, a |-> a]

(* resized_image.convert("RGBA"): an opaque pixel *)
ToRGBA(px) == [r |-> px.r, g |-> px.g, b |-> px.b, a |-> MAX_U8]

(* Pillow's division by 255 by shifts *)
ShiftForDiv255(v) == ((v \div 256) + v) \div 256

(* Image.alpha_composite(dst, over), one pixel, in Pillow's integer         *)
(* arithmetic with 7 bits of extra precision.                               *)
AlphaComposite(dst, over) ==
    IF over.a = 0 THEN dst
    ELSE LET blend   == dst.a * (255 - over.a)
             outa255 == over.a * 255 + blend
             coef1   == (over.a * 255 * 255 * 128) \div outa255
             coef2   == 255 * 128 - coef1
             Ch(s, d) == ShiftForDiv255(s * coef1 + d * coef2 + 128 * 128) \div 128
         IN  [r |-> Ch(over.r, dst.r), g |-> Ch(over.g, dst.g),
              b |-> Ch(over.b, dst.b), a |-> ShiftForDiv255(outa255 + 128)]

Channel == 0 .. MAX_U8

Extremes == {0, MAX_U8}

(* Source pixels: each channel in turn runs over every 8-bit value while    *)
(* the other two sit at an extreme.                                         *)
SrcPixels ==
    {[r |-> v, g |-> s, b |-> t] : v \in Channel, s \in Extremes, t \in Extremes}
    \cup {[r |-> s, g |-> v, b |-> t] : v \in Channel, s \in Extremes, t \in Extremes}
    \cup {[r |-> s, g |-> t, b |-> v] : v \in Channel, s \in Extremes, t \in Extremes}

NoPixel == [r |-> 0, g |-> 0, b |-> 0, a |-> 0]

Grey(v) == [r |-> v, g |-> v, b |-> v, a |-> MAX_U8]

InitPixelVars ==
    /\ path = "logits"
    /\ logit \in Logits
    /\ src \in SrcPixels
    /\ mask = -1
    /\ alpha = -1
    /\ rendered = NoPixel

IdlePixelVars ==
    /\ path = "idle"
    /\ logit = 0
    /\ src = [r |-> 0, g |-> 0, b |-> 0]
    /\ mask = -1
    /\ alpha = -1
    /\ rendered = NoPixel

(* predict_segmentation, lines 134-143: sigmoid, threshold, and the value   *)
(* put in the "predicted_mask" list.                                        *)
PredictSegmentationPost ==
    /\ path = "logits"
    /\ mask' = Binarize(Sigmoid(logit))
    /\ rendered' = Grey(Binarize(Sigmoid(logit)))
    /\ path' = "predict.done"
    /\ UNCHANGED <<logit, src, alpha>>

(* predict_mask_from_image, lines 150-154 *)
PredictMaskFromImage ==
    /\ path = "logits"
    /\ mask' = BinarizeFromImage(Sigmoid(logit))
    /\ path' = "masked"
    /\ UNCHANGED <<logit, src, alpha, rendered>>

(* predict_mask_png, line 166: the grey-level mask image *)
PredictMaskPngRender ==
    /\ path = "masked"
    /\ rendered' = Grey(MaskToU8(mask))
    /\ path' = "mask.done"
    /\ UNCHANGED <<logit, src, mask, alpha>>

(* predict_overlay_png, lines 185-191 *)
PredictOverlayPngRender ==
    /\ path = "masked"
    /\ LET a == OverlayAlpha(MaskToU8(mask))
       IN  /\ alpha' = a
           /\ rendered' = AlphaComposite(ToRGBA(src), OverlayPixel(a))
    /\ path' = "overlay.done"
    /\ UNCHANGED <<logit, src, mask>>

----------------------------------------------------------------------------
(* Start-up and request serving.  Tensors and images are kept as terms:     *)
(* what they were computed from.                                            *)

Requests == 1 .. MaxReq

(* Declared content types of an upload, as character sequences; an upload   *)
(* part may also declare none.                                              *)
Declared(text) == [declared |-> TRUE, text |-> text]

NoContentType == [declared |-> FALSE, text |-> <<>>]

ImagePng == Declared(<<"i", "m", "a", "g", "e", "/", "p", "n", "g">>)

TextPlain == Declared(<<"t", "e", "x", "t", "/", "p", "l", "a", "i", "n">>)

XImage == Declared(<<"x", "/", "i", "m", "a", "g", "e", "/">>)

ContentTypes == {ImagePng, TextPlain, XImage, NoContentType}

ImagePrefix == <<"i", "m", "a", "g", "e", "/">>

Contains(text, part) ==
    \E i \in 1 .. Len(text) :
        i + Len(part) - 1 <= Len(text) /\ SubSeq(text, i, i + Len(part) - 1) = part

(* A check that looks for 'image/' anywhere in the content type. *)
IsImageTypeAnywhere(ct) == Contains(ct.text, ImagePrefix)

(* file.content_type.startswith('image/') *)
IsImageType(ct) ==
    /\ Len(ct.text) >= Len(ImagePrefix)
    /\ SubSeq(ct.text, 1, Len(ImagePrefix)) = ImagePrefix

Bodies == {"imgA", "imgB", "garbage"}

(* Image.open(io.BytesIO(image_bytes)).convert("RGB") *)
Decodes(body) == body # "garbage"

(* The module-level model right after UNet(...).to(DEVICE): freshly         *)
(* initialised parameters, training mode.  stats lists the inputs folded    *)
(* into the batch-normalisation running statistics since they were set.     *)
FreshModel == [params |-> "random", stats |-> <<>>, training |-> TRUE]

(* A start-up that reports the load failure and goes on. *)
LoadOutcomeSwallow(file, m) ==
    IF file = "ok"
    THEN [boot |-> "serving",
          model |-> [params |-> "trained", stats |-> <<>>, training |-> FALSE]]
    ELSE [boot |-> "serving", model |-> m]

(* A start-up that never switches the model to inference mode. *)
LoadOutcomeNoEval(file, m) ==
    IF file = "ok"
    THEN [boot |-> "serving",
          model |-> [params |-> "trained", stats |-> <<>>, training |-> m.training]]
    ELSE [boot |-> "aborted", model |-> m]

(* Lines 90-99: load_state_dict(torch.load(...)), eval(); any failure is    *)
(* re-raised as RuntimeError, which ends the import of the module.          *)
LoadOutcome(file, m) ==
    IF file = "ok"
    THEN [boot |-> "serving",
          model |-> [params |-> "trained", stats |-> <<>>, training |-> FALSE]]
    ELSE IF file = "mismatch"
    THEN [boot |-> "aborted", model |-> [m EXCEPT !.params = "partial"]]
    ELSE [boot |-> "aborted", model |-> m]

(* A forward pass whose batch normalisation keeps tracking statistics in    *)
(* inference mode.                                                          *)
ForwardTracking(m, t) ==
    [logits |-> [params |-> m.params, stats |-> m.stats, batch |-> m.training, of |-> t],
     model  |-> [m EXCEPT !.stats = Append(m.stats, t)]]

(* model(input_tensor) under torch.no_grad(): the layers of lines 11-76 are *)
(* deterministic; BatchNorm2d normalises with the batch statistics and      *)
(* updates the running ones in training mode, and only reads the running    *)
(* ones in inference mode.                                                  *)
Forward(m, t) ==
    IF m.training
    THEN [logits |-> [params |-> m.params, stats |-> <<>>, batch |-> TRUE, of |-> t],
          model  |-> [m EXCEPT !.stats = Append(m.stats, t)]]
    ELSE [logits |-> [params |-> m.params, stats |-> m.stats, batch |-> FALSE, of |-> t],
          model  |-> m]

(* preprocess(image): Resize, ToTensor, Normalize *)
Preprocess(image) == [tensor_of |-> image]

(* image.resize((IMG_SIZE, IMG_SIZE), Image.BILINEAR) *)
Resize(image) == [image EXCEPT !.resized = TRUE]

Decode(body) == [bytes |-> body, resized |-> FALSE]

NoImage == [bytes |-> "none", resized |-> FALSE]

NoLogits == [params |-> "none", stats |-> <<>>, batch |-> FALSE, of |-> Preprocess(NoImage)]

NoResponse == [status |-> 0, kind |-> "none", mask |-> NoLogits, image |-> NoImage]

Rejected == [status |-> 400, kind |-> "Invalid file type", mask |-> NoLogits, image |-> NoImage]

Unhandled == [status |-> 500, kind |-> "Internal Server Error", mask |-> NoLogits, image |-> NoImage]

PredictionFailed == [status |-> 500, kind |-> "Prediction failed", mask |-> NoLogits, image |-> NoImage]

NewRequest ==
    [pc |-> "new", endpoint |-> "none", ctype |-> NoContentType, body |-> "unread",
     read |-> FALSE, decoded |-> FALSE, inferred |-> FALSE,
     by |-> FreshModel, response |-> NoResponse]

InitServeVars ==
    /\ paramFile \in {"ok", "missing", "corrupt", "mismatch"}
    /\ boot = "importing"
    /\ model = FreshModel
    /\ req = [r \in Requests |-> NewRequest]

IdleServeVars ==
    /\ paramFile = "ok"
    /\ boot = "idle"
    /\ model = FreshModel
    /\ req = [r \in Requests |-> NewRequest]

(* Module import, lines 88-99 *)
LoadModel ==
    /\ boot = "importing"
    /\ LET o == LoadOutcome(paramFile, model)
       IN  /\ boot' = o.boot
           /\ model' = o.model
    /\ UNCHANGED <<paramFile, req>>

(* The first lines of each handler: the content-type check, up to the       *)
(* await of file.read().  A part that declares no content type makes        *)
(* startswith fail outside the try block.                                   *)
Begin(r, endpoint) ==
    /\ boot = "serving"
    /\ req[r].pc = "new"
    /\ \E ct \in ContentTypes :
          req' = [req EXCEPT ![r] =
                    IF ~ct.declared
                    THEN [@ EXCEPT !.pc = "done", !.endpoint = endpoint, !.ctype = ct,
                                   !.response = Unhandled]
                    ELSE IF ~IsImageType(ct)
                    THEN [@ EXCEPT !.pc = "done", !.endpoint = endpoint, !.ctype = ct,
                                   !.response = Rejected]
                    ELSE [@ EXCEPT !.pc = "reading", !.endpoint = endpoint, !.ctype = ct]]
    /\ UNCHANGED <<paramFile, boot, model>>

(* The try block of a handler, from the completion of file.read() to the    *)
(* response; resizeFirst tells whether the handler resizes the image        *)
(* before predict_mask_from_image, kind names what it renders.              *)
Finish(r, endpoint, resizeFirst, kind) ==
    /\ boot = "serving"
    /\ req[r].pc = "reading"
    /\ req[r].endpoint = endpoint
    /\ \E body \in Bodies :
          IF ~Decodes(body)
          THEN /\ req' = [req EXCEPT ![r] =
                            [@ EXCEPT !.pc = "done", !.body = body, !.read = TRUE,
                                      !.response = PredictionFailed]]
               /\ model' = model
          ELSE LET image == IF resizeFirst THEN Resize(Decode(body)) ELSE Decode(body)
                   f     == Forward(model, Preprocess(image))
               IN  /\ req' = [req EXCEPT ![r] =
                                [@ EXCEPT !.pc = "done", !.body = body, !.read = TRUE,
                                          !.decoded = TRUE, !.inferred = TRUE,
                                          !.by = model,
                                          !.response =
                                              [status |-> 200, kind |-> kind,
                                               mask |-> f.logits,
                                               image |-> IF kind = "overlay_png"
                                                         THEN image ELSE NoImage]]]
                   /\ model' = f.model
    /\ UNCHANGED <<paramFile, boot>>

(* POST /predict/ *)
PredictSegmentationBegin(r) == Begin(r, "predict")

PredictSegmentationFinish(r) == Finish(r, "predict", FALSE, "json")

(* POST /predict-mask/ *)
PredictMaskPngBegin(r) == Begin(r, "mask")

PredictMaskPngFinish(r) == Finish(r, "mask", TRUE, "mask_png")

(* POST /predict-overlay/ *)
PredictOverlayPngBegin(r) == Begin(r, "overlay")

PredictOverlayPngFinish(r) == Finish(r, "overlay", TRUE, "overlay_png")

----------------------------------------------------------------------------
(* Specifications *)

InitShape == InitShapeVars /\ IdlePixelVars /\ IdleServeVars

NextShape ==
    \/ Inc /\ UNCHANGED <<pixelVars, serveVars>>
    \/ Down /\ UNCHANGED <<pixelVars, serveVars>>
    \/ Up /\ UNCHANGED <<pixelVars, serveVars>>
    \/ Reconcile /\ UNCHANGED <<pixelVars, serveVars>>
    \/ CatConv /\ UNCHANGED <<pixelVars, serveVars>>
    \/ Outc /\ UNCHANGED <<pixelVars, serveVars>>

SpecShape == InitShape /\ [][NextShape]_vars

NextOmit ==
    \/ Inc /\ UNCHANGED <<pixelVars, serveVars>>
    \/ Down /\ UNCHANGED <<pixelVars, serveVars>>
    \/ Up /\ UNCHANGED <<pixelVars, serveVars>>
    \/ ReconcileOmitted /\ UNCHANGED <<pixelVars, serveVars>>
    \/ CatConv /\ UNCHANGED <<pixelVars, serveVars>>
    \/ Outc /\ UNCHANGED <<pixelVars, serveVars>>

SpecOmit == InitShape /\ [][NextOmit]_vars

InitPixel == IdleShapeVars /\ InitPixelVars /\ IdleServeVars

NextPixel ==
    \/ PredictSegmentationPost /\ UNCHANGED <<shapeVars, serveVars>>
    \/ PredictMaskFromImage /\ UNCHANGED <<shapeVars, serveVars>>
    \/ PredictMaskPngRender /\ UNCHANGED <<shapeVars, serveVars>>
    \/ PredictOverlayPngRender /\ UNCHANGED <<shapeVars, serveVars>>

SpecPixel == InitPixel /\ [][NextPixel]_vars

Init == IdleShapeVars /\ IdlePixelVars /\ InitServeVars

Next ==
    \/ LoadModel /\ UNCHANGED <<shapeVars, pixelVars>>
    \/ \E r \in Requests :
          \/ PredictSegmentationBegin(r) /\ UNCHANGED <<shapeVars, pixelVars>>
          \/ PredictSegmentationFinish(r) /\ UNCHANGED <<shapeVars, pixelVars>>
          \/ PredictMaskPngBegin(r) /\ UNCHANGED <<shapeVars, pixelVars>>
          \/ PredictMaskPngFinish(r) /\ UNCHANGED <<shapeVars, pixelVars>>
          \/ PredictOverlayPngBegin(r) /\ UNCHANGED <<shapeVars, pixelVars>>
          \/ PredictOverlayPngFinish(r) /\ UNCHANGED <<shapeVars, pixelVars>>

Spec == Init /\ [][Next]_vars

----------------------------------------------------------------------------
(* Properties *)

Terminal == pc \in {"done", "failed"}

MultipleOf16(t) == t.h % 16 = 0 /\ t.w % 16 = 0

BaseOf(n) == n.inc.conv1.out

(* C1: the logit map has the input's height and width when both are         *)
(* multiples of 16, and at each of the four concatenations the padded       *)
(* upsampled tensor has exactly the height and width of its skip tensor.    *)
C1_ShapesMatch ==
    /\ (pc = "done" /\ MultipleOf16(input)) => SameSize(x, input)
    /\ pc = "cat" => /\ skip[SkipOf(lvl)].ok
                     /\ x.ok
                     /\ SameSize(x, skip[SkipOf(lvl)])
    /\ pc = "failed" => x.kind # "cat"

C1_Witness ==
    /\ pc = "cat"
    /\ lvl = 4
    /\ ~MultipleOf16(input)
    /\ padding.diff_y = 1
    /\ SameSize(x, skip[1])
    /\ SameSize(x, input)

(* C2: for every base_channels b, at each decoder stage the skip tensor     *)
(* has the channel count of the ConvTranspose2d output, the concatenation   *)
(* has the in_channels its DoubleConv declares (16b, 8b, 4b, 2b), no layer  *)
(* receives a channel count other than the declared one, and the final      *)
(* 1x1 convolution receives b channels.                                     *)
C2_ChannelsMatch ==
    /\ pc = "pad" => x.c = skip[SkipOf(lvl)].c
    /\ pc = "cat" =>
          /\ skip[SkipOf(lvl)].c + x.c = net.up[lvl].double_conv.conv1.in
          /\ skip[SkipOf(lvl)].c + x.c = BaseOf(net) * Pow(2, 5 - lvl)
    /\ pc = "outc" => x.c = BaseOf(net) /\ net.outc.in = BaseOf(net)
    /\ pc = "failed" => x.kind # "channels"
    /\ pc = "done" => x.c = 1

C2_Witness ==
    /\ pc = "cat"
    /\ lvl = 1
    /\ BaseOf(net) = 2
    /\ skip[4].c = 16
    /\ x.c = 16

(* C3 as stated: without the reconciliation step, every input whose height  *)
(* or width is not a multiple of 16 ends in a shape mismatch at a           *)
(* concatenation.                                                           *)
C3_AsStated ==
    (Terminal /\ ~MultipleOf16(input)) => (pc = "failed" /\ x.kind = "cat")

(* C3 amended: without the reconciliation step, every input whose height    *)
(* and width are both at least 16 and not both multiples of 16 ends in a    *)
(* shape mismatch at a concatenation; an input with a side below 16 fails   *)
(* earlier, in a pooling step of the encoder; the pass always ends.         *)
C3_OmittedPaddingFails ==
    /\ (Terminal /\ ~MultipleOf16(input) /\ input.h >= 16 /\ input.w >= 16)
          => (pc = "failed" /\ x.kind = "cat")
    /\ (Terminal /\ (input.h < 16 \/ input.w < 16))
          => (pc = "failed" /\ x.kind = "pool")
    /\ (Terminal /\ MultipleOf16(input)) => pc = "done"
    /\ Terminal \/ ENABLED NextOmit

C3_Witness ==
    /\ pc = "failed"
    /\ x.kind = "cat"
    /\ lvl = 4
    /\ input.h = 17
    /\ input.w = 32

(* C4: on both prediction paths a pixel is foreground exactly when the      *)
(* sigmoid of its logit is strictly greater than 0.5; a sigmoid of exactly  *)
(* 0.5 is background; and once a logit is foreground every greater logit    *)
(* is foreground too.                                                       *)
C4_Threshold ==
    path \in {"predict.done", "masked", "mask.done", "overlay.done"} =>
        /\ mask \in {0, 1}
        /\ mask = 1 <=> Sigmoid(logit) > ProbHalf
        /\ Sigmoid(logit) = ProbHalf => mask = 0
        /\ mask = 1 =>
              \A b \in Logits : b >= logit =>
                  /\ Sigmoid(b) >= Sigmoid(logit)
                  /\ Sigmoid(b) > ProbHalf
        /\ path = "predict.done" => rendered.r = mask

C4_Witness ==
    /\ path = "predict.done"
    /\ logit > 0
    /\ Sigmoid(logit) = ProbHalf
    /\ mask = 0

(* The alpha blend of a background and a foreground channel value at        *)
(* opacity a/255, rounded to the nearest integer.                           *)
BlendRef(bg, fg, a) == (a * fg + (255 - a) * bg + 127) \div 255

(* C5: in the overlay, a pixel whose mask is 0 keeps the colour of the      *)
(* resized source pixel, a pixel whose mask is 1 is the alpha blend of the  *)
(* source pixel with red (255, 0, 0) at alpha 120/255, and no other alpha   *)
(* is applied.                                                              *)
C5_Overlay ==
    path = "overlay.done" =>
        /\ alpha \in {0, 120}
        /\ mask = 0 => /\ alpha = 0
                       /\ rendered.r = src.r
                       /\ rendered.g = src.g
                       /\ rendered.b = src.b
        /\ mask = 1 => /\ alpha = 120
                       /\ rendered.r = BlendRef(src.r, 255, 120)
                       /\ rendered.g = BlendRef(src.g, 0, 120)
                       /\ rendered.b = BlendRef(src.b, 0, 120)
        /\ rendered.a = 255

C5_Witness ==
    /\ path = "overlay.done"
    /\ mask = 1
    /\ src = [r |-> 0, g |-> 200, b |-> 255]
    /\ rendered = [r |-> 120, g |-> 106, b |-> 135, a |-> 255]

LoadedModel == [params |-> "trained", stats |-> <<>>, training |-> FALSE]

(* C6: once the parameters are loaded, no sequence or interleaving of       *)
(* requests, rejected and failed ones included, changes a parameter or a    *)
(* batch-normalisation statistic of the shared model, and every successful  *)
(* response is the one computed from the parameters and statistics as       *)
(* loaded, whatever other requests failed.                                  *)
C6_SharedModelUnchanged ==
    /\ boot = "serving" => model = LoadedModel
    /\ \A r \in Requests :
          req[r].response.status = 200 =>
              /\ req[r].by = LoadedModel
              /\ req[r].response.mask.params = "trained"
              /\ req[r].response.mask.stats = <<>>
              /\ ~req[r].response.mask.batch

C6_Witness ==
    /\ boot = "serving"
    /\ model = LoadedModel
    /\ \E r1, r2, r3 \in Requests :
          /\ req[r1].response = PredictionFailed
          /\ req[r2].response = Rejected
          /\ req[r3].response.status = 200

(* C7: a failure to load the parameter file aborts start-up; no request is  *)
(* ever handled by a model whose parameters were not loaded and switched    *)
(* to inference mode, and no response reports a load failure.               *)
C7_LoadFailureAborts ==
    /\ (paramFile # "ok" /\ boot # "importing") => boot = "aborted"
    /\ boot = "aborted" => \A r \in Requests : req[r] = NewRequest
    /\ \A r \in Requests :
          /\ req[r].pc # "new" =>
                /\ paramFile = "ok"
                /\ model.params = "trained"
                /\ ~model.training
          /\ req[r].inferred => req[r].by.params = "trained" /\ ~req[r].by.training
          /\ req[r].response \in {NoResponse, Rejected, Unhandled, PredictionFailed}
                \/ req[r].response.status = 200

C7_Witness ==
    /\ boot = "aborted"
    /\ paramFile = "corrupt"
    /\ model.params = "random"
    /\ model.training

(* C8: on each of the three endpoints a request whose declared content      *)
(* type is not an image type is rejected with 400 before the upload is      *)
(* read, decoded or passed to the network; only requests that passed the    *)
(* content-type check are read, decoded and inferred.                       *)
C8_ContentTypeGate ==
    \A r \in Requests :
        /\ (req[r].pc # "new" /\ req[r].ctype \in {TextPlain, XImage}) =>
              /\ req[r].pc = "done"
              /\ req[r].response = Rejected
              /\ req[r].body = "unread"
              /\ ~req[r].read /\ ~req[r].decoded /\ ~req[r].inferred
        /\ (req[r].read \/ req[r].decoded \/ req[r].inferred \/ req[r].pc = "reading") =>
              req[r].ctype = ImagePng

C8_Witness ==
    \E r1, r2, r3 \in Requests :
        /\ req[r1].endpoint = "predict" /\ req[r1].ctype = XImage
        /\ req[r1].response.status = 400 /\ ~req[r1].read
        /\ req[r2].endpoint = "mask" /\ req[r2].ctype = TextPlain
        /\ req[r2].response.status = 400 /\ ~req[r2].read
        /\ req[r3].endpoint = "overlay" /\ req[r3].ctype = ImagePng
        /\ req[r3].inferred

(* C9: two inference calls on identical input bytes with the same loaded    *)
(* parameters yield identical masks, whatever other requests were served    *)
(* before or between them.                                                  *)
C9_Deterministic ==
    \A r1, r2 \in Requests :
        (/\ req[r1].response.status = 200
         /\ req[r2].response.status = 200
         /\ req[r1].body = req[r2].body) =>
            /\ req[r1].endpoint = req[r2].endpoint =>
                  req[r1].response = req[r2].response
            /\ (req[r1].endpoint # "predict" /\ req[r2].endpoint # "predict") =>
                  req[r1].response.mask = req[r2].response.mask

C9_Witness ==
    \E r1, r2, r3 \in Requests :
        /\ r1 # r2 /\ r2 # r3 /\ r1 # r3
        /\ req[r1].response.status = 200 /\ req[r1].body = "imgA"
        /\ req[r1].endpoint = "mask"
        /\ req[r2].response.status = 200 /\ req[r2].body = "imgB"
        /\ req[r3].response.status = 200 /\ req[r3].body = "imgA"
        /\ req[r3].endpoint = "overlay"
        /\ req[r1].response.mask = req[r3].response.mask

(* C10: at every decoder stage the difference between skip size and         *)
(* upsampled size is 0 or 1 in each dimension, and the reconciliation pads  *)
(* floor(diff/2) on the leading side and the rest on the trailing side: a   *)
(* difference of 1 is one row or column of zeros on the trailing side.      *)
C10_PaddingSplit ==
    /\ pc = "pad" =>
          /\ skip[SkipOf(lvl)].h - x.h \in {0, 1}
          /\ skip[SkipOf(lvl)].w - x.w \in {0, 1}
    /\ pc = "cat" =>
          /\ padding.diff_y \in {0, 1}
          /\ padding.diff_x \in {0, 1}
          /\ padding.left = padding.diff_x \div 2
          /\ padding.top = padding.diff_y \div 2
          /\ padding.left + padding.right = padding.diff_x
          /\ padding.top + padding.bottom = padding.diff_y
          /\ padding.diff_x = 1 => (padding.left = 0 /\ padding.right = 1)
          /\ padding.diff_y = 1 => (padding.top = 0 /\ padding.bottom = 1)
          /\ x.h = 2 * (skip[SkipOf(lvl)].h \div 2) + padding.diff_y
          /\ x.w = 2 * (skip[SkipOf(lvl)].w \div 2) + padding.diff_x

C10_Witness ==
    /\ pc = "cat"
    /\ padding.diff_y = 1
    /\ padding.diff_x = 0
    /\ padding.top = 0
    /\ padding.bottom = 1
    /\ padding.left = 0
    /\ padding.right = 0

====
